---- MODULE Spec2Model ----
(***************************************************************************)
(* A model of the parallel mypy driver scripts (mypy_pre2.py, mypy-pre.py, *)
(* z.py) and of the metadata store (mypy/metastore.py).                    *)
(*                                                                         *)
(*   Spec      the accumulating scheduler of mypy_pre2.py: layers are      *)
(*             walked in order, their source modules accumulated, and the  *)
(*             pending set flushed through process_layer to a process pool *)
(*   SpecPart  the size-balancing partition loop, one iteration per step   *)
(*   SpecStore the two metadata stores, one call per step                  *)
(*   SpecConc  concurrent callers of a metadata store, one system call or  *)
(*             statement per step                                          *)
(*   SpecChunk z.py: chunk_array and the thread pool of main               *)
(*   SpecLive  Spec with weak fairness of the program steps               *)
(***************************************************************************)
EXTENDS Integers, Sequences, FiniteSets, TLC

VARIABLES
    deps,         \* graph[node].dependencies: unit -> set of units
    modules,      \* the set of source modules (mypy_pre2.py:83-85)
    sizes,        \* os.path.getsize of every unit's file
    threshold,    \* the accumulation threshold (the literal of mypy_pre2.py:114)
    layers,       \* parallel_topological_sort(topograph)
    pc,           \* the controlling process's position
    i,            \* index of the layer the loop is at (1-based)
    curr_inters,  \* the pending set
    proc_sets,    \* the list of flushed path lists
    workers,      \* per flush, per submitted command: the worker process
    result_list,  \* per flush, the results of execute_commands
    part,         \* the partition loop's locals (SpecPart)
    store,        \* the metadata store (SpecStore)
    call,         \* the last metadata store call and its outcome (SpecStore)
    written,      \* per name, the data of the last successful write not followed
                  \* by a remove (SpecStore)
    procs,        \* the concurrent callers of the metadata store (SpecConc)
    chunk         \* the locals of z.py's main and chunk_array (SpecChunk)

vars == <<deps, modules, sizes, threshold, layers, pc, i, curr_inters,
          proc_sets, workers, result_list, part, store, call, written,
          procs, chunk>>

schedVars == <<deps, modules, sizes, threshold, layers, pc, i, curr_inters,
               proc_sets, workers, result_list>>

-----------------------------------------------------------------------------
(* Bounds and program constants *)

Units == {"A", "B", "C"}

MaxCost == 1

MaxThreshold == 2

DefaultThreshold == 16

MaxWorkers == 16

NumProcsPre == 8

MaxSize == 2

MaxPrefix == 1

MaxDataLen == 1

MaxRun == 19

MaxTmp == 2

MaxLen == 3

MaxChunks == 3

Thresholds == (1..MaxThreshold) \cup {DefaultThreshold}

-----------------------------------------------------------------------------
(* Helpers *)

Max(S) == CHOOSE x \in S : \A y \in S : y <= x

Min2(a, b) == IF a <= b THEN a ELSE b

RECURSIVE SumSeq(_)
SumSeq(s) == IF s = <<>> THEN 0 ELSE Head(s) + SumSeq(Tail(s))

Range(s) == {s[k] : k \in DOMAIN s}

\* The orders in which a Python set may be iterated.
Orders(S) == {f \in [1..Cardinality(S) -> S] : \A x \in S : \E k \in DOMAIN f : f[k] = x}

-----------------------------------------------------------------------------
(* Layering: build_parallel_graph and parallel_topological_sort.  Their    *)
(* code (mypy.build of this fork) is not among the source files; they are  *)
(* modelled from the specification's section 4.1.                          *)

RECURSIVE ReachSet(_, _, _)
ReachSet(dp, S, n) ==
    IF n = 0 THEN S ELSE ReachSet(dp, S \cup UNION {dp[x] : x \in S}, n - 1)

Reaches(dp, u) == ReachSet(dp, {u}, Cardinality(Units))

\* The strongly-connected group of u.
SccOf(dp, u) == {v \in Units : v \in Reaches(dp, u) /\ u \in Reaches(dp, v)}

\* The nodes of the condensed graph; a node is identified with its members.
build_parallel_graph(dp) == {SccOf(dp, u) : u \in Units}

\* node_sccs[node]: the modules of a node.
node_sccs(node) == node

GroupDeps(dp, g) == {SccOf(dp, d) : d \in UNION {dp[m] : m \in g}} \ {g}

LayerOfDepsMin(S) == IF S = {} THEN 0 ELSE 1 + (CHOOSE x \in S : \A y \in S : x <= y)

LayerOfDeps(S) == IF S = {} THEN 0 ELSE 1 + Max(S)

RECURSIVE LayerIndex(_, _)
LayerIndex(dp, g) == LayerOfDeps({LayerIndex(dp, h) : h \in GroupDeps(dp, g)})

parallel_topological_sort(dp) ==
    LET nodes == build_parallel_graph(dp)
        top == Max({LayerIndex(dp, g) : g \in nodes})
    IN [k \in 1..(top + 1) |-> {g \in nodes : LayerIndex(dp, g) = k - 1}]

-----------------------------------------------------------------------------
(* process_layer / the partition loop (mypy_pre2.py:54-68, mypy-pre.py:50-66) *)

\* math.ceil(sum(sizes)/num_procs) for non-negative integers
target_size(szs, num_procs) == (SumSeq(szs) + num_procs - 1) \div num_procs

\* num_procs = min(16, len(paths))
num_procs_layer(paths) == Min2(MaxWorkers, Len(paths))

\* commands = [[["mypy"], 0] for _ in range(num_procs)], append_idx = 0
RECURSIVE EmptyCommands(_)
EmptyCommands(n) ==
    IF n = 0 THEN <<>> ELSE <<[paths |-> <<>>, size |-> 0]>> \o EmptyCommands(n - 1)

InitCommands(n) == [commands |-> EmptyCommands(n), append_idx |-> 0, error |-> FALSE]

AdvanceStrict(size, target) == size > target

\* if commands[append_idx][1] >= target_size: append_idx += 1
Advance(size, target) == size >= target

\* One iteration of the loop; append_idx is 0-based as in the source, and
\* an index past the last command is Python's IndexError.
PartitionIter(st, p, sz, target) ==
    LET idx == IF Advance(st.commands[st.append_idx + 1].size, target)
               THEN st.append_idx + 1 ELSE st.append_idx
    IN IF idx >= Len(st.commands)
       THEN [st EXCEPT !.append_idx = idx, !.error = TRUE]
       ELSE [st EXCEPT !.append_idx = idx,
                       !.commands[idx + 1] = [paths |-> Append(@.paths, p),
                                              size |-> @.size + sz]]

RECURSIVE PartitionLoop(_, _, _, _, _)
PartitionLoop(st, paths, szs, target, k) ==
    IF st.error \/ k > Len(paths) THEN st
    ELSE PartitionLoop(PartitionIter(st, paths[k], szs[k], target), paths, szs, target, k + 1)

RECURSIVE SubmitAll(_)
SubmitAll(commands) ==
    IF commands = <<>> THEN <<>>
    ELSE <<Head(commands).paths>> \o SubmitAll(Tail(commands))

\* submit_commands = [cmd[0] for cmd in commands if len(cmd[0]) > 1]
RECURSIVE submit_commands(_)
submit_commands(commands) ==
    IF commands = <<>> THEN <<>>
    ELSE (IF Len(Head(commands).paths) > 0 THEN <<Head(commands).paths>> ELSE <<>>)
         \o submit_commands(Tail(commands))

\* sizes.append(os.path.getsize(f)) for f in paths
RECURSIVE SizesOf(_)
SizesOf(paths) ==
    IF paths = <<>> THEN <<>> ELSE <<sizes[Head(paths)]>> \o SizesOf(Tail(paths))

\* process_layer up to the call of execute_commands; st is the state the
\* loop ends in (bound through a one-element set, so it is computed once).
process_layer(paths) ==
    LET szs == SizesOf(paths)
        n == num_procs_layer(paths)
    IN CHOOSE r \in {[error |-> st.error, submit |-> submit_commands(st.commands)] :
                        st \in {PartitionLoop(InitCommands(n), paths, szs,
                                              target_size(szs, n), 1)}} : TRUE

-----------------------------------------------------------------------------
(* execute_command / execute_commands (mypy_pre2.py:29-41) *)

\* A worker process started by executor.map for one command.
StartWorker(cmd) == [cmd |-> cmd, running |-> TRUE, returncode |-> 0]

\* process.communicate() returns; the tuple (output, error, returncode) is
\* the worker's result whatever the exit status.
execute_command(w, rc) == [w EXCEPT !.running = FALSE, !.returncode = rc]

PoolShutdownNoWait(pool) == TRUE

\* Leaving the with-block is executor.shutdown(wait=True).
PoolShutdownDone(pool) == \A b \in DOMAIN pool : ~pool[b].running

RECURSIVE ResultsOfSucceeded(_)
ResultsOfSucceeded(pool) ==
    IF pool = <<>> THEN <<>>
    ELSE (IF Head(pool).returncode = 0
          THEN <<[cmd |-> Head(pool).cmd, returncode |-> Head(pool).returncode]>>
          ELSE <<>>) \o ResultsOfSucceeded(Tail(pool))

\* executor.map yields the results in the order of the submitted commands.
RECURSIVE Results(_)
Results(pool) ==
    IF pool = <<>> THEN <<>>
    ELSE <<[cmd |-> Head(pool).cmd, returncode |-> Head(pool).returncode]>>
         \o Results(Tail(pool))

\* executor.map submits every command at once.
RECURSIVE StartAll(_)
StartAll(cmds) ==
    IF cmds = <<>> THEN <<>> ELSE <<StartWorker(Head(cmds))>> \o StartAll(Tail(cmds))

-----------------------------------------------------------------------------
(* The accumulation loop of mypy_pre2.py (lines 97-132) *)

FlushDueStrict(n) == n > threshold

\* if len(curr_inters) >= 16
FlushDue(n) == n >= threshold

curr_layer_reversed(k) == layers[Len(layers) + 1 - k]

\* curr_layer = set(layers[i])
curr_layer(k) == layers[k]

\* curr_layer_set.intersection(modules)
inters(layer) == (UNION {node_sccs(node) : node \in layer}) \cap modules

KeepPending(pending) == pending

\* curr_inters.clear()
Cleared(pending) == {}

IdlePart == [pc |-> "idle"]

IdleStore == [variant |-> "none"]

IdleCall == [op |-> "none"]

IdleWritten == <<>>

IdleProcs == <<>>

IdleChunk == [pc |-> "idle"]

Init ==
    /\ deps \in [Units -> SUBSET Units]
    /\ \A u \in Units : u \notin deps[u]
    /\ modules \in SUBSET Units
    /\ sizes \in [Units -> 0..MaxCost]
    /\ threshold \in Thresholds
    /\ layers = parallel_topological_sort(deps)
    /\ pc = "loop"
    /\ i = 1
    /\ curr_inters = {}
    /\ proc_sets = <<>>
    /\ workers = <<>>
    /\ result_list = <<>>
    /\ part = IdlePart
    /\ store = IdleStore
    /\ call = IdleCall
    /\ written = IdleWritten
    /\ procs = IdleProcs
    /\ chunk = IdleChunk

\* Lines 102-112: the layer's source modules are added to the pending set.
UnionLayer ==
    /\ pc = "loop"
    /\ i <= Len(layers)
    /\ curr_inters' = curr_inters \cup inters(curr_layer(i))
    /\ pc' = "check"
    /\ UNCHANGED <<deps, modules, sizes, threshold, layers, i, proc_sets,
                   workers, result_list, part, store, call, written,
                   procs, chunk>>

\* Line 114, condition false: on to the next layer.
NextLayer ==
    /\ pc = "check"
    /\ ~FlushDue(Cardinality(curr_inters))
    /\ i' = i + 1
    /\ pc' = "loop"
    /\ UNCHANGED <<deps, modules, sizes, threshold, layers, curr_inters,
                   proc_sets, workers, result_list, part, store, call, written,
                   procs, chunk>>

\* proc_sets.append(...), then process_layer up to the submission of every
\* command to the pool; the partition loop's IndexError ends the program.
Dispatch(paths) ==
    \E r \in {process_layer(paths)} :
       /\ proc_sets' = Append(proc_sets, paths)
       /\ IF r.error
          THEN /\ pc' = "IndexError"
               /\ UNCHANGED workers
          ELSE /\ pc' = "dispatch"
               /\ workers' = Append(workers, StartAll(r.submit))

\* Lines 114-119: the pending set is flushed.
FlushLayer ==
    /\ pc = "check"
    /\ FlushDue(Cardinality(curr_inters))
    /\ \E paths \in Orders(curr_inters) : Dispatch(paths)
    /\ UNCHANGED <<deps, modules, sizes, threshold, layers, i, curr_inters,
                   result_list, part, store, call, written,
                   procs, chunk>>

\* Lines 124-129: the remainder is flushed after the last layer.
FinalFlush ==
    /\ pc = "loop"
    /\ i > Len(layers)
    /\ curr_inters # {}
    /\ \E paths \in Orders(curr_inters) : Dispatch(paths)
    /\ UNCHANGED <<deps, modules, sizes, threshold, layers, i, curr_inters,
                   result_list, part, store, call, written,
                   procs, chunk>>

\* A worker's mypy process exits with some status.
WorkerExit ==
    /\ \E f \in DOMAIN workers : \E b \in DOMAIN workers[f] : \E rc \in {0, 1} :
          /\ workers[f][b].running
          /\ workers' = [workers EXCEPT ![f][b] = execute_command(@, rc)]
    /\ UNCHANGED <<deps, modules, sizes, threshold, layers, pc, i, curr_inters,
                   proc_sets, result_list, part, store, call, written,
                   procs, chunk>>

\* execute_commands returns inside the loop (lines 119-120).
ReturnInLoop ==
    /\ pc = "dispatch"
    /\ i <= Len(layers)
    /\ PoolShutdownDone(workers[Len(workers)])
    /\ result_list' = Append(result_list, Results(workers[Len(workers)]))
    /\ curr_inters' = Cleared(curr_inters)
    /\ i' = i + 1
    /\ pc' = "loop"
    /\ UNCHANGED <<deps, modules, sizes, threshold, layers, proc_sets,
                   workers, part, store, call, written,
                   procs, chunk>>

\* execute_commands returns in the final flush (lines 129-130).
ReturnFinal ==
    /\ pc = "dispatch"
    /\ i > Len(layers)
    /\ PoolShutdownDone(workers[Len(workers)])
    /\ result_list' = Append(result_list, Results(workers[Len(workers)]))
    /\ curr_inters' = Cleared(curr_inters)
    /\ pc' = "DONE"
    /\ UNCHANGED <<deps, modules, sizes, threshold, layers, i, proc_sets,
                   workers, part, store, call, written,
                   procs, chunk>>

\* Line 124, condition false: nothing is pending after the last layer.
Finish ==
    /\ pc = "loop"
    /\ i > Len(layers)
    /\ curr_inters = {}
    /\ pc' = "DONE"
    /\ UNCHANGED <<deps, modules, sizes, threshold, layers, i, curr_inters,
                   proc_sets, workers, result_list, part, store, call, written,
                   procs, chunk>>

Next ==
    \/ UnionLayer
    \/ NextLayer
    \/ FlushLayer
    \/ FinalFlush
    \/ WorkerExit
    \/ ReturnInLoop
    \/ ReturnFinal
    \/ Finish

Spec == Init /\ [][Next]_vars

-----------------------------------------------------------------------------
(* SpecPart: the partition loop of process_layer (mypy_pre2.py:54-68) and of *)
(* mypy-pre.py (lines 50-66), one loop iteration per step.  A path is the    *)
(* position of its file in the list.                                         *)

SeqsUpTo(S, n) == UNION {[1..m -> S] : m \in 0..n}

\* The size lists tried: any short list, then a run of equal sizes, then
\* possibly one more file.
PartInputs ==
    {pre \o [k \in 1..r |-> c] \o suf :
        pre \in SeqsUpTo(0..MaxSize, MaxPrefix), r \in 0..MaxRun, c \in 0..MaxSize,
        suf \in SeqsUpTo(0..MaxSize, 1)} \ {<<>>}

RECURSIVE Iota(_)
Iota(n) == IF n = 0 THEN <<>> ELSE Append(Iota(n - 1), n)

\* num_procs: min(16, len(paths)) in process_layer, 8 in mypy-pre.py
num_procs_of(variant, paths) ==
    IF variant = "layer" THEN num_procs_layer(paths) ELSE NumProcsPre

StartPart(variant, szs) ==
    LET n == num_procs_of(variant, Iota(Len(szs)))
    IN [pc |-> "loop", variant |-> variant, sizes |-> szs, num_procs |-> n,
        target |-> target_size(szs, n), st |-> InitCommands(n), k |-> 1,
        submit |-> <<>>]

InitPart ==
    /\ part \in {StartPart(v, szs) : v \in {"layer", "pre"}, szs \in PartInputs}
    /\ deps = [u \in Units |-> {}]
    /\ modules = {}
    /\ sizes = [u \in Units |-> 0]
    /\ threshold = DefaultThreshold
    /\ layers = <<>>
    /\ pc = "idle"
    /\ i = 1
    /\ curr_inters = {}
    /\ proc_sets = <<>>
    /\ workers = <<>>
    /\ result_list = <<>>
    /\ store = IdleStore
    /\ call = IdleCall
    /\ written = IdleWritten
    /\ procs = IdleProcs
    /\ chunk = IdleChunk

\* One iteration of "for i in range(len(paths))".
PartIterate ==
    /\ part.pc = "loop"
    /\ part.k <= Len(part.sizes)
    /\ LET st == PartitionIter(part.st, part.k, part.sizes[part.k], part.target)
       IN part' = [part EXCEPT !.st = st,
                               !.k = IF st.error THEN @ ELSE @ + 1,
                               !.pc = IF st.error THEN "IndexError" ELSE "loop"]
    /\ UNCHANGED <<schedVars, store, call, written,
                   procs, chunk>>

\* The loop is over: submit_commands is built and handed to execute_commands.
PartSubmit ==
    /\ part.pc = "loop"
    /\ part.k > Len(part.sizes)
    /\ part' = [part EXCEPT !.submit = submit_commands(part.st.commands),
                            !.pc = "submitted"]
    /\ UNCHANGED <<schedVars, store, call, written,
                   procs, chunk>>

NextPart == PartIterate \/ PartSubmit

SpecPart == InitPart /\ [][NextPart]_vars

\* The cost of a batch of paths.
RECURSIVE BatchCost(_)
BatchCost(b) == IF b = <<>> THEN 0 ELSE part.sizes[Head(b)] + BatchCost(Tail(b))

TotalCost == SumSeq(part.sizes)

MaxUnitCost == Max(Range(part.sizes))

\* The places (batch, position) of path k in the submitted commands.
PlacesOf(k) ==
    UNION {{<<b, x>> : x \in {y \in DOMAIN part.submit[b] : part.submit[b][y] = k}} :
           b \in DOMAIN part.submit}

-----------------------------------------------------------------------------
(* C3 *)

\* C3: with num_procs = min(16, len(paths)), for every non-empty list of
\* files of non-negative sizes the partition loop runs to completion with
\* append_idx inside 0..num_procs-1, and every file ends up in exactly one
\* submitted command.
C3_PartitionCompletes ==
    part.variant = "layer" =>
        /\ part.pc # "IndexError"
        /\ part.st.append_idx \in 0..(part.num_procs - 1)
        /\ part.pc = "submitted" =>
              \A k \in DOMAIN part.sizes : Cardinality(PlacesOf(k)) = 1

-----------------------------------------------------------------------------
(* C4 *)

\* C4: the submitted commands are at most num_procs, none of them is empty,
\* and no batch, at any point of the loop and in what is submitted, costs
\* more than target + the largest single file size.
C4_BatchBounds ==
    /\ \A b \in DOMAIN part.st.commands :
          /\ part.st.commands[b].size <= part.target + MaxUnitCost
          /\ part.st.commands[b].size = BatchCost(part.st.commands[b].paths)
    /\ part.pc = "submitted" =>
          /\ Len(part.submit) <= part.num_procs
          /\ \A b \in DOMAIN part.submit :
                /\ Len(part.submit[b]) > 0
                /\ BatchCost(part.submit[b]) <= part.target + MaxUnitCost

\* Fewer commands submitted than num_procs, one of them above the target.
C4_Witness ==
    /\ part.pc = "submitted"
    /\ Len(part.submit) < part.num_procs
    /\ Len(part.submit) >= 2
    /\ \E b \in DOMAIN part.submit : BatchCost(part.submit[b]) > part.target

-----------------------------------------------------------------------------
(* C5 *)

\* C5 as claimed: every submitted batch's cost differs from the even share
\* total/num_procs by at most the largest single file size, from above and
\* from below (stated in integers, multiplied by num_procs).
C5_Balanced ==
    part.pc = "submitted" =>
        \A b \in DOMAIN part.submit :
            /\ BatchCost(part.submit[b]) * part.num_procs
                  <= TotalCost + MaxUnitCost * part.num_procs
            /\ BatchCost(part.submit[b]) * part.num_procs
                  >= TotalCost - MaxUnitCost * part.num_procs

\* C5 as amended: every submitted batch's cost exceeds the even share by at
\* most the largest single file size (by less than it when the total is
\* positive), and every submitted batch except the last one filled costs at
\* least the target, hence at least the even share; the last one may be
\* below the share by more than a file's size.
C5_BalancedAbove ==
    part.pc = "submitted" =>
        \A b \in DOMAIN part.submit :
            /\ BatchCost(part.submit[b]) * part.num_procs
                  <= TotalCost + MaxUnitCost * part.num_procs
            /\ TotalCost > 0 =>
                  BatchCost(part.submit[b]) * part.num_procs
                      < TotalCost + MaxUnitCost * part.num_procs
            /\ b < Len(part.submit) =>
                  /\ BatchCost(part.submit[b]) >= part.target
                  /\ BatchCost(part.submit[b]) * part.num_procs >= TotalCost

\* Several batches were submitted and the last is below the share by more
\* than the largest file size.
C5_Witness ==
    /\ part.pc = "submitted"
    /\ Len(part.submit) >= 2
    /\ BatchCost(part.submit[Len(part.submit)]) * part.num_procs
          < TotalCost - MaxUnitCost * part.num_procs

-----------------------------------------------------------------------------
(* SpecStore: the metadata stores of mypy/metastore.py, one call per step.   *)
(* Text is a sequence of characters; a timestamp is a number of half         *)
(* seconds; a path is the sequence of its components.                        *)

\* "m.py" and "pkg/n.py"
Names == {<<"m.py">>, <<"pkg", "n.py">>}

\* The values random_string() returns, told apart by a number.
Suffixes == 1..MaxTmp

Chars == {"a", "CR", "LF"}

Data == SeqsUpTo(Chars, MaxDataLen)

\* 123.0, 456.5 and 1000000001.0
MTimes == {246, 913, 2000000002}

\* The mtime argument of write: None, or a timestamp.
MtimeArgs == {[given |-> FALSE, t |-> 0]} \cup {[given |-> TRUE, t |-> m] : m \in MTimes}

\* The arguments of the writes of SpecStore, where system calls and
\* statements may fail: empty and non-empty data, no mtime and 456.5.
FaultData == {<<>>, <<"a">>}

FaultMtimeArgs == {[given |-> FALSE, t |-> 0], [given |-> TRUE, t |-> 913]}

\* The clock: time.time(), and the mtime the file system gives a new file.
time_time == 2 * 700 + 1

NoEntry == [present |-> FALSE, content |-> <<>>, mtime |-> 0]

\* No write on record for a name.
NoWrite == [present |-> FALSE, content |-> <<>>, mtime |-> [given |-> FALSE, t |-> 0]]

\* os.linesep of the platform the scripts run on (POSIX).
os_linesep == <<"LF">>

\* f.write(data) on a file opened with open(tmp_filename, "w"): text mode
\* writes os.linesep for every "\n".
RECURSIVE TextWrite(_)
TextWrite(data) ==
    IF data = <<>> THEN <<>>
    ELSE (IF Head(data) = "LF" THEN os_linesep ELSE <<Head(data)>>) \o TextWrite(Tail(data))

\* f.read() on a file opened with open(path): text mode with universal
\* newlines gives "\n" for every "\r\n" and every "\r".
RECURSIVE TextRead(_)
TextRead(content) ==
    IF content = <<>> THEN <<>>
    ELSE IF Head(content) = "CR"
         THEN <<"LF">> \o TextRead(IF Len(content) >= 2 /\ content[2] = "LF"
                                   THEN Tail(Tail(content)) ELSE Tail(content))
         ELSE <<Head(content)>> \o TextRead(Tail(content))

\* int(os.path.getmtime(...))
int(t) == (t \div 2) * 2

\* The spacing of single-precision numbers around t (24 bits of significand).
RECURSIVE Ulp(_)
Ulp(t) == IF t < 2^24 THEN 1 ELSE 2 * Ulp(t \div 2)

\* A value stored in and selected from the column "mtime REAL": PostgreSQL
\* rounds it to the nearest single-precision number, ties to even.
REAL(t) ==
    LET u == Ulp(t)
        q == t \div u
        r == t % u
    IN IF 2 * r < u THEN q * u
       ELSE IF 2 * r > u THEN (q + 1) * u
       ELSE (IF q % 2 = 0 THEN q ELSE q + 1) * u

os_path_dirname(path) == SubSeq(path, 1, Len(path) - 1)

os_path_basename(path) == path[Len(path)]

\* os.path.relpath(dir, self.cache_dir_prefix) of a directory under the root,
\* dir given by its components below the root.
os_path_relpath(dir) == IF dir = <<>> THEN <<".">> ELSE dir

os_path_join(dir, file) == dir \o <<file>>

\* A name list_all yields: a path, and the random suffix of its last
\* component (0: none).
Yielded(path, suffix) == [path |-> path, suffix |-> suffix]

\* FilesystemMetadataStore.__init__: a cache dir under os.devnull gives no root.
FilesystemMetadataStore(null_root) ==
    [variant |-> "fs", cache_dir_prefix |-> ~null_root,
     files |-> [n \in Names |-> NoEntry], tmp |-> {}]

\* SqliteMetadataStore.__init__: the table "files" exists and is empty.
SqliteMetadataStore ==
    [variant |-> "sql", cache_dir_prefix |-> TRUE,
     files |-> [n \in Names |-> NoEntry], tmp |-> {}]

Returned(op, name, value) ==
    [op |-> op, name |-> name, raised |-> "none", value |-> value]

Raised(op, name, exc) ==
    [op |-> op, name |-> name, raised |-> exc, value |-> <<>>]

InitStore ==
    /\ store \in {FilesystemMetadataStore(FALSE), FilesystemMetadataStore(TRUE),
                  SqliteMetadataStore}
    /\ call = IdleCall
    /\ written = [n \in Names |-> NoWrite]
    /\ procs = IdleProcs
    /\ chunk = IdleChunk
    /\ part = IdlePart
    /\ deps = [u \in Units |-> {}]
    /\ modules = {}
    /\ sizes = [u \in Units |-> 0]
    /\ threshold = DefaultThreshold
    /\ layers = <<>>
    /\ pc = "idle"
    /\ i = 1
    /\ curr_inters = {}
    /\ proc_sets = <<>>
    /\ workers = <<>>
    /\ result_list = <<>>

\* The null check left out.
no_cache_dir_prefix_never == FALSE

\* not self.cache_dir_prefix
no_cache_dir_prefix == ~store.cache_dir_prefix

\* What a call that returned True has written, for the record of writes.
NoteWrite(name, data, mtime, ok) ==
    written' = IF ok THEN [written EXCEPT ![name] = [present |-> TRUE, content |-> data, mtime |-> mtime]]
               ELSE written

\* The system calls of FilesystemMetadataStore.write that may raise OSError.
FsWriteSteps == {"makedirs", "open", "write", "replace", "utime"}

\* The temporary files of a path that exist.
TmpOf(name) == {t \in store.tmp : t.name = name}

\* random_string(): a value no temporary file of the path carries.
random_string(name) == {r \in Suffixes : [name |-> name, suffix |-> r] \notin store.tmp}

\* FilesystemMetadataStore.write; fail names the call that raises OSError, if
\* any, and r is the value of random_string().
FilesystemMetadataStore_write(name, data, mtime, fail, r) ==
    /\ store.variant = "fs"
    /\ fail = "utime" => mtime.given
    /\ store.cache_dir_prefix => r \in random_string(name)
    /\ IF no_cache_dir_prefix
       THEN /\ call' = Returned("write", name, <<FALSE>>)
            /\ NoteWrite(name, data, mtime, FALSE)
            /\ UNCHANGED store
       ELSE IF fail \in {"makedirs", "open"}
       THEN /\ call' = Returned("write", name, <<FALSE>>)
            /\ NoteWrite(name, data, mtime, FALSE)
            /\ UNCHANGED store
       ELSE IF fail \in {"write", "replace"}
       THEN \* the temporary file stays behind
            /\ call' = Returned("write", name, <<FALSE>>)
            /\ NoteWrite(name, data, mtime, FALSE)
            /\ store' = [store EXCEPT !.tmp = @ \cup {[name |-> name, suffix |-> r]}]
       ELSE IF fail = "utime"
       THEN \* os.replace has put the data in place, os.utime raises
            /\ call' = Returned("write", name, <<FALSE>>)
            /\ NoteWrite(name, data, mtime, FALSE)
            /\ store' = [store EXCEPT !.files[name] =
                            [present |-> TRUE, content |-> TextWrite(data),
                             mtime |-> time_time]]
       ELSE /\ call' = Returned("write", name, <<TRUE>>)
            /\ NoteWrite(name, data, mtime, TRUE)
            /\ store' = [store EXCEPT !.files[name] =
                            [present |-> TRUE, content |-> TextWrite(data),
                             mtime |-> IF mtime.given THEN mtime.t ELSE time_time]]

\* FilesystemMetadataStore.read
FilesystemMetadataStore_read(name) ==
    /\ store.variant = "fs"
    /\ call' = IF no_cache_dir_prefix \/ ~store.files[name].present
               THEN Raised("read", name, "FileNotFoundError")
               ELSE Returned("read", name, TextRead(store.files[name].content))
    /\ UNCHANGED <<store, written>>

\* FilesystemMetadataStore.getmtime
FilesystemMetadataStore_getmtime(name) ==
    /\ store.variant = "fs"
    /\ call' = IF no_cache_dir_prefix \/ ~store.files[name].present
               THEN Raised("getmtime", name, "FileNotFoundError")
               ELSE Returned("getmtime", name, <<int(store.files[name].mtime)>>)
    /\ UNCHANGED <<store, written>>

\* FilesystemMetadataStore.remove
FilesystemMetadataStore_remove(name) ==
    /\ store.variant = "fs"
    /\ written' = [written EXCEPT ![name] = NoWrite]
    /\ IF no_cache_dir_prefix \/ ~store.files[name].present
       THEN /\ call' = Raised("remove", name, "FileNotFoundError")
            /\ UNCHANGED store
       ELSE /\ call' = Returned("remove", name, <<>>)
            /\ store' = [store EXCEPT !.files[name] = NoEntry]

\* FilesystemMetadataStore.list_all: os.walk gives every file of the tree,
\* the temporary ones included, under the relative path of its directory.
FilesystemMetadataStore_list_all ==
    /\ store.variant = "fs"
    /\ call' = IF no_cache_dir_prefix
               THEN Returned("list_all", <<>>, {})
               ELSE Returned("list_all", <<>>,
                       {Yielded(os_path_join(os_path_relpath(os_path_dirname(n)),
                                             os_path_basename(n)), 0) :
                            n \in {x \in Names : store.files[x].present}}
                       \cup
                       {Yielded(os_path_join(os_path_relpath(os_path_dirname(t.name)),
                                             os_path_basename(t.name)), t.suffix) :
                            t \in store.tmp})
    /\ UNCHANGED <<store, written>>

\* SqliteMetadataStore.write; fail: cur.execute raises psycopg2.Error.
SqliteMetadataStore_write(name, data, mtime, fail) ==
    /\ store.variant = "sql"
    /\ IF fail
       THEN /\ call' = Returned("write", name, <<FALSE>>)
            /\ NoteWrite(name, data, mtime, FALSE)
            /\ UNCHANGED store
       ELSE /\ call' = Returned("write", name, <<TRUE>>)
            /\ NoteWrite(name, data, mtime, TRUE)
            /\ store' = [store EXCEPT !.files[name] =
                            [present |-> TRUE, content |-> data,
                             mtime |-> REAL(IF mtime.given THEN mtime.t ELSE time_time)]]

\* SqliteMetadataStore.read
SqliteMetadataStore_read(name) ==
    /\ store.variant = "sql"
    /\ call' = IF ~store.files[name].present
               THEN Raised("read", name, "FileNotFoundError")
               ELSE Returned("read", name, store.files[name].content)
    /\ UNCHANGED <<store, written>>

\* SqliteMetadataStore.getmtime
SqliteMetadataStore_getmtime(name) ==
    /\ store.variant = "sql"
    /\ call' = IF ~store.files[name].present
               THEN Raised("getmtime", name, "FileNotFoundError")
               ELSE Returned("getmtime", name, <<store.files[name].mtime>>)
    /\ UNCHANGED <<store, written>>

\* SqliteMetadataStore.remove: DELETE of no row raises nothing.
SqliteMetadataStore_remove(name) ==
    /\ store.variant = "sql"
    /\ written' = [written EXCEPT ![name] = NoWrite]
    /\ call' = Returned("remove", name, <<>>)
    /\ store' = [store EXCEPT !.files[name] = NoEntry]

\* SqliteMetadataStore.list_all: SELECT path FROM files
SqliteMetadataStore_list_all ==
    /\ store.variant = "sql"
    /\ call' = Returned("list_all", <<>>,
                   {Yielded(n, 0) : n \in {x \in Names : store.files[x].present}})
    /\ UNCHANGED <<store, written>>

FsWrite ==
    /\ \E name \in Names : \E data \in FaultData : \E mtime \in FaultMtimeArgs :
          \E fail \in FsWriteSteps \cup {"none"} : \E r \in Suffixes :
             FilesystemMetadataStore_write(name, data, mtime, fail, r)
    /\ UNCHANGED <<schedVars, part, procs, chunk>>

FsWriteOk ==
    /\ \E name \in Names : \E data \in Data : \E mtime \in MtimeArgs : \E r \in Suffixes :
          FilesystemMetadataStore_write(name, data, mtime, "none", r)
    /\ UNCHANGED <<schedVars, part, procs, chunk>>

FsRead ==
    /\ \E name \in Names : FilesystemMetadataStore_read(name)
    /\ UNCHANGED <<schedVars, part, procs, chunk>>

FsGetmtime ==
    /\ \E name \in Names : FilesystemMetadataStore_getmtime(name)
    /\ UNCHANGED <<schedVars, part, procs, chunk>>

FsRemove ==
    /\ \E name \in Names : FilesystemMetadataStore_remove(name)
    /\ UNCHANGED <<schedVars, part, procs, chunk>>

FsListAll ==
    /\ FilesystemMetadataStore_list_all
    /\ UNCHANGED <<schedVars, part, procs, chunk>>

SqlWrite ==
    /\ \E name \in Names : \E data \in FaultData : \E mtime \in FaultMtimeArgs : \E fail \in BOOLEAN :
          SqliteMetadataStore_write(name, data, mtime, fail)
    /\ UNCHANGED <<schedVars, part, procs, chunk>>

SqlWriteOk ==
    /\ \E name \in Names : \E data \in Data : \E mtime \in MtimeArgs :
          SqliteMetadataStore_write(name, data, mtime, FALSE)
    /\ UNCHANGED <<schedVars, part, procs, chunk>>

SqlRead ==
    /\ \E name \in Names : SqliteMetadataStore_read(name)
    /\ UNCHANGED <<schedVars, part, procs, chunk>>

SqlGetmtime ==
    /\ \E name \in Names : SqliteMetadataStore_getmtime(name)
    /\ UNCHANGED <<schedVars, part, procs, chunk>>

SqlRemove ==
    /\ \E name \in Names : SqliteMetadataStore_remove(name)
    /\ UNCHANGED <<schedVars, part, procs, chunk>>

SqlListAll ==
    /\ SqliteMetadataStore_list_all
    /\ UNCHANGED <<schedVars, part, procs, chunk>>

NextStore ==
    \/ FsWrite
    \/ FsRead
    \/ FsGetmtime
    \/ FsRemove
    \/ FsListAll
    \/ SqlWrite
    \/ SqlRead
    \/ SqlGetmtime
    \/ SqlRemove
    \/ SqlListAll

SpecStore == InitStore /\ [][NextStore]_vars

\* The calls made one after another with no system call or statement failing.
NextStoreSeq ==
    \/ FsWriteOk
    \/ FsRead
    \/ FsGetmtime
    \/ FsRemove
    \/ FsListAll
    \/ SqlWriteOk
    \/ SqlRead
    \/ SqlGetmtime
    \/ SqlRemove
    \/ SqlListAll

SpecStoreSeq == InitStore /\ [][NextStoreSeq]_vars

-----------------------------------------------------------------------------
(* C10 *)

\* C10: in the filesystem store with a root and in the relational store,
\* after any sequence of write and remove calls, read(name) returns exactly
\* the data of the most recent successful write(name, ...) that no
\* remove(name) followed, and raises FileNotFoundError if there is none.
C10_ReadsLastWrite ==
    (call.op = "read" /\ store.cache_dir_prefix) =>
        IF written[call.name].present
        THEN call.raised = "none" /\ call.value = written[call.name].content
        ELSE call.raised = "FileNotFoundError"

-----------------------------------------------------------------------------
(* C11 *)

\* C11: in the filesystem store with a root and in the relational store,
\* getmtime(name) after a successful write(name, data, mtime) with an
\* explicitly given mtime, whole or fractional, and no later write or remove
\* of that name, returns exactly mtime.
C11_MtimeRoundTrip ==
    (/\ call.op = "getmtime"
     /\ store.cache_dir_prefix
     /\ written[call.name].present
     /\ written[call.name].mtime.given) =>
        call.raised = "none" /\ call.value = <<written[call.name].mtime.t>>

-----------------------------------------------------------------------------
(* C12 *)

\* C12: in both stores, a read, getmtime or remove of a name that has no
\* entry raises FileNotFoundError and leaves the store unchanged.
C12_NotFound ==
    [][(/\ call'.op \in {"read", "getmtime", "remove"}
        /\ ~store.files[call'.name].present) =>
           (call'.raised = "FileNotFoundError" /\ store' = store)]_vars

-----------------------------------------------------------------------------
(* C13 *)

\* C13: a filesystem store with a null root stays empty under any sequence
\* of calls: it holds no file and no temporary file, every write returns
\* False, every read, getmtime and remove raises FileNotFoundError, and
\* list_all yields no name.
C13_NullRootEmpty ==
    (store.variant = "fs" /\ ~store.cache_dir_prefix) =>
        /\ \A n \in Names : ~store.files[n].present
        /\ store.tmp = {}
        /\ call.op = "write" => call.raised = "none" /\ call.value = <<FALSE>>
        /\ call.op \in {"read", "getmtime", "remove"} => call.raised = "FileNotFoundError"
        /\ call.op = "list_all" => call.raised = "none" /\ call.value = {}

\* A write to a store with a null root has returned.
C13_Witness ==
    /\ store.variant = "fs"
    /\ ~store.cache_dir_prefix
    /\ call.op = "write"
    /\ call.name = <<"pkg", "n.py">>

-----------------------------------------------------------------------------
(* C16 *)

\* C16: in both stores, also after failed writes, the names list_all yields
\* are exactly the names that have an entry, that is the names written
\* successfully and not removed since.
C16_ListAllExact ==
    call.op = "list_all" =>
        call.value = {Yielded(n, 0) : n \in {x \in Names : written[x].present}}

-----------------------------------------------------------------------------
(* SpecConc: two writers and a reader call a metadata store about one name *)
(* at the same time.  A step is one system call or one SQL statement.      *)

Writers == {"w1", "w2"}

\* The name the concurrent calls are about.
ConcName == <<"pkg", "n.py">>

\* The data of the concurrent writes, and the data stored before them.
ConcData == {<<"a">>, <<"CR">>}

PriorData == <<"LF">>

\* The mtime arguments of the concurrent writes: None, 123.0 and 200.0; the
\* entry stored before them has 100.0.
ConcMtimeArgs ==
    {[given |-> FALSE, t |-> 0], [given |-> TRUE, t |-> 246], [given |-> TRUE, t |-> 400]}

PriorMtime == [given |-> TRUE, t |-> 200]

IdleWriter == [pc |-> "idle", data |-> <<>>, mtime |-> [given |-> FALSE, t |-> 0],
               r |-> 0, buf |-> <<>>]

IdleReader == [pc |-> "idle", op |-> "none", handle |-> <<>>, result |-> IdleCall]

\* The store before the concurrent calls: empty, or holding an entry for the
\* name that an earlier write(ConcName, PriorData, 100.0) has made.
PriorStores ==
    {FilesystemMetadataStore(FALSE),
     [FilesystemMetadataStore(FALSE) EXCEPT !.files[ConcName] =
         [present |-> TRUE, content |-> TextWrite(PriorData), mtime |-> PriorMtime.t]],
     SqliteMetadataStore,
     [SqliteMetadataStore EXCEPT !.files[ConcName] =
         [present |-> TRUE, content |-> PriorData, mtime |-> REAL(PriorMtime.t)]]}

InitConc ==
    /\ store \in PriorStores
    /\ procs = [w1 |-> IdleWriter, w2 |-> IdleWriter, r |-> IdleReader,
                prior |-> store.files[ConcName].present]
    /\ call = IdleCall
    /\ written = IdleWritten
    /\ chunk = IdleChunk
    /\ part = IdlePart
    /\ deps = [u \in Units |-> {}]
    /\ modules = {}
    /\ sizes = [u \in Units |-> 0]
    /\ threshold = DefaultThreshold
    /\ layers = <<>>
    /\ pc = "idle"
    /\ i = 1
    /\ curr_inters = {}
    /\ proc_sets = <<>>
    /\ workers = <<>>
    /\ result_list = <<>>

concIdle == <<schedVars, part, call, written, chunk>>

\* open(tmp_filename, "w"): the temporary file exists and is empty.
open_w(st, name, r) ==
    [st EXCEPT !.tmp = @ \cup {[name |-> name, suffix |-> r]}]

\* os.replace(tmp_filename, path): the temporary file, with what was written
\* to it and the mtime of that write, takes the place of the destination.
os_replace(st, name, r, buf) ==
    [st EXCEPT !.tmp = @ \ {[name |-> name, suffix |-> r]},
               !.files[name] = [present |-> TRUE, content |-> buf, mtime |-> time_time]]

\* os.utime(path, times=(mtime, mtime))
os_utime(st, name, t) == [st EXCEPT !.files[name].mtime = t]

\* write(name, data, mtime) is called; in the filesystem store the null check
\* passes and path and tmp_filename are computed.
WriteCall(w) ==
    /\ procs[w].pc = "idle"
    /\ \E data \in ConcData : \E mtime \in ConcMtimeArgs :
          procs' = [procs EXCEPT ![w] = [@ EXCEPT !.pc = IF store.variant = "fs" THEN "open"
                                                        ELSE "execute",
                                                  !.data = data, !.mtime = mtime]]
    /\ UNCHANGED <<store, concIdle>>

\* os.makedirs and open(tmp_filename, "w"); the value random_string() gave is
\* one that no other temporary file of the path carries.
WriteOpen(w) ==
    /\ procs[w].pc = "open"
    /\ \E r \in random_string(ConcName) :
          /\ store' = open_w(store, ConcName, r)
          /\ procs' = [procs EXCEPT ![w] = [@ EXCEPT !.pc = "write", !.r = r, !.buf = <<>>]]
    /\ UNCHANGED concIdle

\* f.write(data) and the close of the with-block
WriteData(w) ==
    /\ procs[w].pc = "write"
    /\ procs' = [procs EXCEPT ![w] = [@ EXCEPT !.pc = "replace", !.buf = TextWrite(procs[w].data)]]
    /\ UNCHANGED <<store, concIdle>>

\* os.replace(tmp_filename, path)
WriteReplace(w) ==
    /\ procs[w].pc = "replace"
    /\ store' = os_replace(store, ConcName, procs[w].r, procs[w].buf)
    /\ procs' = [procs EXCEPT ![w] = [@ EXCEPT !.pc = IF procs[w].mtime.given THEN "utime"
                                                      ELSE "done"]]
    /\ UNCHANGED concIdle

\* os.utime(path, times=(mtime, mtime)); return True
WriteUtime(w) ==
    /\ procs[w].pc = "utime"
    /\ store' = os_utime(store, ConcName, procs[w].mtime.t)
    /\ procs' = [procs EXCEPT ![w] = [@ EXCEPT !.pc = "done"]]
    /\ UNCHANGED concIdle

\* SqliteMetadataStore.write: the one INSERT ... ON CONFLICT DO UPDATE
\* statement, under autocommit.
WriteExecute(w) ==
    /\ procs[w].pc = "execute"
    /\ store' = [store EXCEPT !.files[ConcName] =
                    [present |-> TRUE, content |-> procs[w].data,
                     mtime |-> REAL(IF procs[w].mtime.given THEN procs[w].mtime.t
                                    ELSE time_time)]]
    /\ procs' = [procs EXCEPT ![w] = [@ EXCEPT !.pc = "done"]]
    /\ UNCHANGED concIdle

\* FilesystemMetadataStore.read: open(path) binds the file that is the
\* destination at this moment, or raises FileNotFoundError.
ReadOpen ==
    /\ procs.r.pc = "idle"
    /\ store.variant = "fs"
    /\ procs' = [procs EXCEPT !.r =
                    IF store.files[ConcName].present
                    THEN [@ EXCEPT !.pc = "read", !.op = "read",
                                   !.handle = store.files[ConcName].content]
                    ELSE [@ EXCEPT !.pc = "done", !.op = "read",
                                   !.result = Raised("read", ConcName, "FileNotFoundError")]]
    /\ UNCHANGED <<store, concIdle>>

\* FilesystemMetadataStore.read: f.read() of the file that was opened
ReadFile ==
    /\ procs.r.pc = "read"
    /\ procs' = [procs EXCEPT !.r = [@ EXCEPT !.pc = "done",
                                              !.result = Returned("read", ConcName,
                                                                  TextRead(procs.r.handle))]]
    /\ UNCHANGED <<store, concIdle>>

\* SqliteMetadataStore.read: the one SELECT statement
ReadSelect ==
    /\ procs.r.pc = "idle"
    /\ store.variant = "sql"
    /\ procs' = [procs EXCEPT !.r =
                    [@ EXCEPT !.pc = "done", !.op = "read",
                              !.result = IF store.files[ConcName].present
                                         THEN Returned("read", ConcName,
                                                       store.files[ConcName].content)
                                         ELSE Raised("read", ConcName, "FileNotFoundError")]]
    /\ UNCHANGED <<store, concIdle>>

\* What getmtime(name) returns or raises in the current state.
getmtime_now(name) ==
    IF ~store.files[name].present THEN Raised("getmtime", name, "FileNotFoundError")
    ELSE Returned("getmtime", name,
                  <<IF store.variant = "fs" THEN int(store.files[name].mtime)
                    ELSE store.files[name].mtime>>)

\* What read(name) returns or raises when no step of another caller falls
\* between its open and its read.
read_now(name) ==
    IF ~store.files[name].present THEN Raised("read", name, "FileNotFoundError")
    ELSE Returned("read", name,
                  IF store.variant = "fs" THEN TextRead(store.files[name].content)
                  ELSE store.files[name].content)

\* getmtime(name): one os.path.getmtime, or one SELECT statement
ReadGetmtime ==
    /\ procs.r.pc = "idle"
    /\ procs' = [procs EXCEPT !.r = [@ EXCEPT !.pc = "done", !.op = "getmtime",
                                              !.result = getmtime_now(ConcName)]]
    /\ UNCHANGED <<store, concIdle>>

\* The reader makes its next call.
ReadAgain ==
    /\ procs.r.pc = "done"
    /\ procs' = [procs EXCEPT !.r = IdleReader]
    /\ UNCHANGED <<store, concIdle>>

NextConc ==
    \/ \E w \in Writers : WriteCall(w)
    \/ \E w \in Writers : WriteOpen(w)
    \/ \E w \in Writers : WriteData(w)
    \/ \E w \in Writers : WriteReplace(w)
    \/ \E w \in Writers : WriteUtime(w)
    \/ \E w \in Writers : WriteExecute(w)
    \/ ReadOpen
    \/ ReadFile
    \/ ReadSelect
    \/ ReadGetmtime
    \/ ReadAgain

SpecConc == InitConc /\ [][NextConc]_vars

\* The writes that have been called.
Called == {w \in Writers : procs[w].pc # "idle"}

-----------------------------------------------------------------------------
(* C14 *)

\* C14: a read(name) of the filesystem store that runs while writes of the
\* name are in progress returns the complete data stored before, or the
\* complete data of one of the writes that were called, and raises
\* FileNotFoundError only if there was no entry before; and two writers in
\* progress never have the same temporary file.
C14_AtomicData ==
    /\ (store.variant = "fs" /\ procs.r.pc = "done" /\ procs.r.op = "read") =>
          IF procs.r.result.raised # "none"
          THEN ~procs.prior
          ELSE procs.r.result.value \in
                  (IF procs.prior THEN {PriorData} ELSE {}) \cup
                  {procs[w].data : w \in Called}
    /\ \A v, w \in Writers :
          (/\ v # w
           /\ procs[v].pc \in {"write", "replace"}
           /\ procs[w].pc \in {"write", "replace"}) => procs[v].r # procs[w].r

-----------------------------------------------------------------------------
(* C15 *)

\* read(name) and getmtime(name) in the current state give the data and the
\* mtime that one write call was given (any mtime, if it was given none).
PairOf(data, mtime) ==
    /\ read_now(ConcName) = Returned("read", ConcName, data)
    /\ mtime.given => getmtime_now(ConcName) = Returned("getmtime", ConcName, <<mtime.t>>)

\* C15: at every moment, while writes with an explicit mtime are in progress
\* and while two writers write the same name, the data and the mtime that
\* read(name) and getmtime(name) give for an entry are the data and the mtime
\* of one single write call, in both stores.
C15_EntryAtomic ==
    store.files[ConcName].present =>
        \/ procs.prior /\ PairOf(PriorData, PriorMtime)
        \/ \E w \in Called : PairOf(procs[w].data, procs[w].mtime)

-----------------------------------------------------------------------------
(* C20 *)

\* The files list_all walks over, temporary ones included.
Listed == <<{n \in Names : store.files[n].present}, store.tmp>>

\* C20: in both stores, whenever a write returns False, at whichever system
\* call or statement it failed, read(name) and getmtime(name) give what they
\* gave before the call, and list_all yields the names it yielded before.
C20_FailedWriteNoChange ==
    [][\A name \in Names :
          (call'.op = "write" /\ call'.name = name /\ call'.value = <<FALSE>>) =>
              /\ read_now(name)' = read_now(name)
              /\ getmtime_now(name)' = getmtime_now(name)
              /\ Listed' = Listed]_vars

-----------------------------------------------------------------------------
(* SpecChunk: z.py.  main hands the chunks of chunk_array to a thread pool. *)
(* Lists are objects on a heap, so that a copy and an alias differ.         *)

\* The lists main may be called with, and the numbers of threads.
ChunkInputs == SeqsUpTo(Units, MaxLen)

NumThreads == 1..MaxChunks

\* b = array: a second name for the caller's list.
array_alias(heap, array) == [heap |-> heap, ref |-> array]

\* array.copy(): a new list object with the same elements.
array_copy(heap, array) == [heap |-> Append(heap, heap[array]), ref |-> Len(heap) + 1]

\* The list s with its elements at the positions f gives.
RECURSIVE Permuted(_, _, _)
Permuted(s, f, k) ==
    IF k > Len(s) THEN <<>> ELSE <<s[f[k]]>> \o Permuted(s, f, k + 1)

\* The orders random.shuffle can leave a list in.
random_shuffle(s) == {Permuted(s, f, 1) : f \in Orders(DOMAIN s)}

\* b[lo:hi] for 0 <= lo <= hi <= len(b)
Slice(b, lo, hi) == SubSeq(b, lo + 1, hi)

\* [b[i * k + min(i, m):(i + 1) * k + min(i + 1, m)] for i in range(n)],
\* from index i on
RECURSIVE Chunks(_, _, _, _, _)
Chunks(b, k, m, n, idx) ==
    IF idx >= n THEN <<>>
    ELSE <<Slice(b, idx * k + Min2(idx, m), (idx + 1) * k + Min2(idx + 1, m))>>
         \o Chunks(b, k, m, n, idx + 1)

\* executor.map(run_mypy, chunks): one call of run_mypy per chunk, in order
RECURSIVE executor_map(_)
executor_map(chunks) ==
    IF chunks = <<>> THEN <<>>
    ELSE <<[paths |-> Head(chunks), running |-> TRUE]>> \o executor_map(Tail(chunks))

InitChunk ==
    /\ \E paths \in ChunkInputs : \E num_threads \in NumThreads :
          chunk = [pc |-> "copy", heap |-> <<paths>>, array |-> 1, b |-> 0,
                   n |-> num_threads, paths |-> paths, result |-> <<>>, runs |-> <<>>]
    /\ procs = IdleProcs
    /\ store = IdleStore
    /\ call = IdleCall
    /\ written = IdleWritten
    /\ part = IdlePart
    /\ deps = [u \in Units |-> {}]
    /\ modules = {}
    /\ sizes = [u \in Units |-> 0]
    /\ threshold = DefaultThreshold
    /\ layers = <<>>
    /\ pc = "idle"
    /\ i = 1
    /\ curr_inters = {}
    /\ proc_sets = <<>>
    /\ workers = <<>>
    /\ result_list = <<>>

chunkIdle == <<schedVars, part, store, call, written, procs>>

\* b = array.copy()
ChunkCopy ==
    /\ chunk.pc = "copy"
    /\ LET c == array_copy(chunk.heap, chunk.array)
       IN chunk' = [chunk EXCEPT !.pc = "shuffle", !.heap = c.heap, !.b = c.ref]
    /\ UNCHANGED chunkIdle

\* random.shuffle(b)
ChunkShuffle ==
    /\ chunk.pc = "shuffle"
    /\ \E s \in random_shuffle(chunk.heap[chunk.b]) :
          chunk' = [chunk EXCEPT !.pc = "split", !.heap[chunk.b] = s]
    /\ UNCHANGED chunkIdle

\* k, m = divmod(len(b), n) and the list of slices
ChunkSplit ==
    /\ chunk.pc = "split"
    /\ LET b == chunk.heap[chunk.b]
           k == Len(b) \div chunk.n
           m == Len(b) % chunk.n
       IN chunk' = [chunk EXCEPT !.pc = "map", !.result = Chunks(b, k, m, chunk.n, 0)]
    /\ UNCHANGED chunkIdle

\* results = executor.map(run_mypy, chunk_array(paths, num_threads))
MainMap ==
    /\ chunk.pc = "map"
    /\ chunk' = [chunk EXCEPT !.pc = "shutdown", !.runs = executor_map(chunk.result)]
    /\ UNCHANGED chunkIdle

\* One call of run_mypy returns.
RunMypy ==
    /\ chunk.pc = "shutdown"
    /\ \E k \in DOMAIN chunk.runs :
          /\ chunk.runs[k].running
          /\ chunk' = [chunk EXCEPT !.runs[k].running = FALSE]
    /\ UNCHANGED chunkIdle

\* The with-block is left when every call has returned.
MainDone ==
    /\ chunk.pc = "shutdown"
    /\ \A k \in DOMAIN chunk.runs : ~chunk.runs[k].running
    /\ chunk' = [chunk EXCEPT !.pc = "done"]
    /\ UNCHANGED chunkIdle

NextChunk ==
    \/ ChunkCopy
    \/ ChunkShuffle
    \/ ChunkSplit
    \/ MainMap
    \/ RunMypy
    \/ MainDone

SpecChunk == InitChunk /\ [][NextChunk]_vars

-----------------------------------------------------------------------------
(* C17 *)

RECURSIVE Concat(_)
Concat(ss) == IF ss = <<>> THEN <<>> ELSE Head(ss) \o Concat(Tail(ss))

\* How many times x is an element of s.
Count(s, x) == Cardinality({k \in DOMAIN s : s[k] = x})

\* C17: chunk_array returns exactly n chunks; they are consecutive slices of
\* the shuffled copy, which holds the elements of the input, each as often as
\* the input does; the chunk sizes differ by at most 1; the caller's list is
\* as it was; and main runs one call of run_mypy per chunk.
C17_ChunkArray ==
    /\ chunk.heap[chunk.array] = chunk.paths
    /\ chunk.pc \in {"map", "shutdown", "done"} =>
          /\ Len(chunk.result) = chunk.n
          /\ Concat(chunk.result) = chunk.heap[chunk.b]
          /\ \A u \in Units : Count(Concat(chunk.result), u) = Count(chunk.paths, u)
          /\ \A x, y \in DOMAIN chunk.result :
                Len(chunk.result[x]) - Len(chunk.result[y]) <= 1
    /\ chunk.pc \in {"shutdown", "done"} =>
          /\ Len(chunk.runs) = chunk.n
          /\ \A k \in DOMAIN chunk.runs : chunk.runs[k].paths = chunk.result[k]
    /\ chunk.pc = "done" => \A k \in DOMAIN chunk.runs : ~chunk.runs[k].running

\* Three different units in two chunks of sizes 2 and 1, in an order other
\* than the caller's, every call of run_mypy returned.
C17_Witness ==
    /\ chunk.pc = "done"
    /\ chunk.n = 2
    /\ Cardinality(Range(chunk.paths)) = 3
    /\ chunk.heap[chunk.b] # chunk.paths
    /\ Len(chunk.result[1]) = 2
    /\ Len(chunk.result[2]) = 1

-----------------------------------------------------------------------------
(* SpecLayer: the layering alone, applied to every dependency graph *)

InitLayer ==
    /\ deps \in [Units -> SUBSET Units]
    /\ \A u \in Units : u \notin deps[u]
    /\ modules = Units
    /\ sizes = [u \in Units |-> 1]
    /\ threshold = DefaultThreshold
    /\ layers = <<>>
    /\ pc = "graph"
    /\ i = 1
    /\ curr_inters = {}
    /\ proc_sets = <<>>
    /\ workers = <<>>
    /\ result_list = <<>>
    /\ part = IdlePart
    /\ store = IdleStore
    /\ call = IdleCall
    /\ written = IdleWritten
    /\ procs = IdleProcs
    /\ chunk = IdleChunk

\* layers = parallel_topological_sort(topograph)
BuildLayers ==
    /\ pc = "graph"
    /\ layers' = parallel_topological_sort(deps)
    /\ pc' = "loop"
    /\ UNCHANGED <<deps, modules, sizes, threshold, i, curr_inters, proc_sets,
                   workers, result_list, part, store, call, written,
                   procs, chunk>>

SpecLayer == InitLayer /\ [][BuildLayers]_vars

-----------------------------------------------------------------------------
(* Observations of the scheduler's run *)

\* The units handed to the workers of flush f.
FlushUnits(f) == UNION {Range(workers[f][b].cmd) : b \in DOMAIN workers[f]}

\* The flushes in which u was dispatched.
FlushesOf(u) == {f \in DOMAIN workers : u \in FlushUnits(f)}

\* Every worker invocation of flush f has finished.
FlushDone(f) == \A b \in DOMAIN workers[f] : ~workers[f][b].running

\* execute_commands has returned for flush f.
Barriered(f) == FlushDone(f) /\ f <= Len(result_list)

\* The places (flush, command, position) at which u was handed to a worker.
Dispatches(u) ==
    UNION {UNION {{<<f, b, k>> : k \in {x \in DOMAIN workers[f][b].cmd :
                                          workers[f][b].cmd[x] = u}} :
                  b \in DOMAIN workers[f]} : f \in DOMAIN workers}

\* The groups of the layer sequence.
Groups == UNION {layers[k] : k \in DOMAIN layers}

\* Dependency edges u -> d between source units of different groups.
CrossEdges ==
    {e \in Units \X Units : /\ e[2] \in deps[e[1]]
                            /\ ~\E g \in Groups : e[1] \in g /\ e[2] \in g
                            /\ e[1] \in modules /\ e[2] \in modules}

\* The source units that are members of some layer's group.
SourceInLayers == (UNION Groups) \cap modules

\* The layers that hold u, read off the layer sequence.
LayersOf(u) == {k \in DOMAIN layers : \E g \in layers[k] : u \in g}

LayerOf(u) == CHOOSE k \in LayersOf(u) : TRUE

-----------------------------------------------------------------------------
(* C1 *)

\* C1 as claimed: for every dependency edge u -> d between units of different
\* groups, d was dispatched in a flush strictly earlier than u's, and that
\* flush had completed and been barriered; u and d never share a flush.
C1_StrictFlushOrder ==
    \A e \in CrossEdges : \A fu \in FlushesOf(e[1]) :
        \E fd \in FlushesOf(e[2]) : fd < fu /\ Barriered(fd)

\* C1 as amended: for every dependency edge u -> d between source units of
\* different groups, whenever u is dispatched, d is dispatched in the same
\* flush as u or in a strictly earlier flush, and an earlier flush of d has
\* completed and been barriered before u's flush is dispatched.
C1_FlushOrder ==
    \A e \in CrossEdges : \A fu \in FlushesOf(e[1]) :
        \E fd \in FlushesOf(e[2]) : fd <= fu /\ (fd < fu => Barriered(fd))

\* An edge whose ends were dispatched in two different flushes, and one whose
\* ends share a flush.
C1_Witness ==
    /\ \E e \in CrossEdges : \E fu \in FlushesOf(e[1]) : \E fd \in FlushesOf(e[2]) : fd < fu
    /\ \E e \in CrossEdges : FlushesOf(e[1]) \cap FlushesOf(e[2]) # {}

-----------------------------------------------------------------------------
(* C2 *)

\* C2: flushes never overlap.  Every worker of an earlier flush has finished
\* when a later flush has workers, and while the scheduler is at the loop
\* (about to union a layer, or deciding on a flush) every worker started so
\* far has finished and every dispatch call has returned its results.
C2_NoOverlap ==
    /\ \A f \in DOMAIN workers : f < Len(workers) => Barriered(f)
    /\ pc \in {"loop", "check", "DONE"} =>
          /\ \A f \in DOMAIN workers : FlushDone(f)
          /\ Len(result_list) = Len(workers)

\* A second flush is running after a first one of several workers.
C2_Witness ==
    /\ Len(workers) >= 2
    /\ Len(workers[1]) >= 2
    /\ \E b \in DOMAIN workers[2] : workers[2][b].running

-----------------------------------------------------------------------------
(* C6 *)

Scenario3 ==
    /\ threshold = 2
    /\ modules = {"A", "B", "C"}
    /\ layers = <<{{"A"}}, {{"B"}}, {{"C"}}>>

\* C6: the flush trigger.  Leaving the check after a layer's union, a flush is
\* started if and only if the pending count is at least the threshold; the
\* flush takes the whole pending set (never a part of it); the pending set is
\* empty when the flush's dispatch returns; every flush but the last has at
\* least threshold units; and with threshold 2 and layers [{A}],[{B}],[{C}] the
\* flushes are {A,B} and then {C}.
C6_FlushTrigger ==
    /\ [](pc = "loop" => Cardinality(curr_inters) < threshold)
    /\ [](\A f \in DOMAIN proc_sets :
             (f < Len(proc_sets) \/ (pc = "dispatch" /\ i <= Len(layers)))
                 => Len(proc_sets[f]) >= threshold)
    /\ [](pc = "dispatch" =>
             /\ Range(proc_sets[Len(proc_sets)]) = curr_inters
             /\ FlushUnits(Len(workers)) = curr_inters
             /\ Len(proc_sets[Len(proc_sets)]) = Cardinality(curr_inters))
    /\ []((pc = "DONE" /\ Scenario3) =>
             /\ Len(proc_sets) = 2
             /\ Range(proc_sets[1]) = {"A", "B"}
             /\ Range(proc_sets[2]) = {"C"})
    /\ [][(pc = "check" /\ pc' # "check") =>
             ((pc' \in {"dispatch", "IndexError"}) <=> Cardinality(curr_inters) >= threshold)]_vars
    /\ [][(pc = "dispatch" /\ pc' # "dispatch") => curr_inters' = {}]_vars

\* The scenario has run to its end.
C6_Witness == pc = "DONE" /\ Scenario3 /\ Len(result_list) = 2

-----------------------------------------------------------------------------
(* C7 *)

\* C7: at DONE every source unit that is a member of some layer's group has
\* been handed to exactly one worker of exactly one flush, and the pending set
\* is empty; and leaving the loop after the last layer, the final flush is
\* started if and only if the pending set is non-empty.
C7_AllDispatchedOnce ==
    /\ [](pc = "DONE" =>
             /\ \A u \in SourceInLayers : Cardinality(Dispatches(u)) = 1
             /\ \A u \in Units \ SourceInLayers : Dispatches(u) = {}
             /\ curr_inters = {})
    /\ [][(pc = "loop" /\ i > Len(layers) /\ pc' # "loop") =>
             /\ (pc' = "DONE") <=> (curr_inters = {})
             /\ (pc' \in {"dispatch", "IndexError"}) <=> (curr_inters # {})]_vars

\* DONE after a flush inside the loop and a final flush, with a unit that is
\* no source module.
C7_Witness ==
    /\ pc = "DONE"
    /\ Len(workers) = 2
    /\ Cardinality(SourceInLayers) = 2
    /\ modules # Units

-----------------------------------------------------------------------------
(* C8 *)

Scenario1 == deps = [u \in Units |-> IF u = "A" THEN {} ELSE {"A"}]

\* C8: every unit is in exactly one group of exactly one layer; for every
\* dependency edge u -> d between units of different strongly-connected
\* groups layer(d) < layer(u); a group's layer is 0 without dependencies and
\* 1 + the largest layer of its dependencies otherwise; mutually reachable
\* units are in the same layer; A, B dep A, C dep A gives [{A}], [{B, C}].
C8_Layering ==
    pc = "loop" =>
    /\ \A u \in Units :
          /\ Cardinality(LayersOf(u)) = 1
          /\ Cardinality({g \in layers[LayerOf(u)] : u \in g}) = 1
    /\ \A u \in Units : \A d \in deps[u] :
          IF u \in Reaches(deps, d)
          THEN LayerOf(d) = LayerOf(u)
          ELSE LayerOf(d) < LayerOf(u)
    /\ \A u \in Units :
          LET below == {LayerOf(d) - 1 : d \in {x \in Reaches(deps, u) : u \notin Reaches(deps, x)}}
          IN LayerOf(u) - 1 = IF below = {} THEN 0 ELSE 1 + Max(below)
    /\ Scenario1 => layers = <<{{"A"}}, {{"B"}, {"C"}}>>

\* A graph with a cycle of two units and a unit depending on the cycle.
C8_Witness ==
    /\ pc = "loop"
    /\ \E u, v \in Units : u # v /\ u \in deps[v] /\ v \in deps[u]
    /\ \E u \in Units : \E d \in deps[u] : u \notin Reaches(deps, d)
    /\ Len(layers) = 2

-----------------------------------------------------------------------------
(* C9 *)

\* C9: the result of every dispatch call that has returned holds one tuple
\* per submitted command, in submission order, each with the exit status its
\* worker returned, a non-zero one included; and at DONE every worker of every
\* flush has run to completion and every source unit of the layers has been
\* dispatched, whatever the exit statuses were.
C9_FailureIsolation ==
    /\ \A f \in DOMAIN result_list :
          /\ Len(result_list[f]) = Len(workers[f])
          /\ \A b \in DOMAIN workers[f] :
                /\ ~workers[f][b].running
                /\ result_list[f][b].cmd = workers[f][b].cmd
                /\ result_list[f][b].returncode = workers[f][b].returncode
    /\ pc = "DONE" =>
          /\ Len(result_list) = Len(workers)
          /\ \A u \in SourceInLayers : FlushesOf(u) # {}

\* A batch of the first flush failed while its sibling succeeded, and a later
\* flush was dispatched and the run reached DONE.
C9_Witness ==
    /\ pc = "DONE"
    /\ Len(result_list) = 2
    /\ \E b, c \in DOMAIN result_list[1] :
          result_list[1][b].returncode = 1 /\ result_list[1][c].returncode = 0

-----------------------------------------------------------------------------
(* C19 *)

\* Every dependency edge u -> d, inside a group or across groups.
DepEdges == {e \in Units \X Units : e[2] \in deps[e[1]]}

\* C19: for every dependency edge u -> d, no flush that dispatches d comes
\* after a flush that dispatches u, and when u has been dispatched and d is a
\* source unit, d has been dispatched in the same flush as u or in an earlier
\* one; a unit is never dispatched in a flush before that of a dependency.
C19_WeakFlushOrder ==
    \A e \in DepEdges :
        /\ \A fu \in FlushesOf(e[1]) : \A fd \in FlushesOf(e[2]) : fd <= fu
        /\ (FlushesOf(e[1]) # {} /\ e[2] \in modules) => FlushesOf(e[2]) # {}

\* A finished run with a chain u -> d -> c in which d and c were dispatched
\* together in the first flush and u in the second.
C19_Witness ==
    /\ pc = "DONE"
    /\ \E u, d, c \in Units :
          /\ d \in deps[u] /\ c \in deps[d]
          /\ FlushesOf(c) = {1} /\ FlushesOf(d) = {1} /\ FlushesOf(u) = {2}

-----------------------------------------------------------------------------
(* SpecLive: the scheduler when the controlling process keeps running and   *)
(* every worker process exits in the end: the Python program is sequential  *)
(* and blocks only in the pool's shutdown, so a step that stays possible is *)
(* taken in the end.                                                        *)

SpecLive == Init /\ [][Next]_vars /\ WF_vars(Next)

-----------------------------------------------------------------------------
(* C18 *)

\* C18: when every worker invocation terminates, the scheduler reaches DONE
\* in the end, after at most one flush per layer and the final flush; it never
\* goes back to an earlier layer and never hands a unit to a worker twice.
C18_Termination ==
    /\ <>(pc = "DONE")
    /\ [](Len(proc_sets) <= Len(layers) + 1)
    /\ [](\A u \in Units : Cardinality(Dispatches(u)) <= 1)
    /\ [][i' >= i]_vars

====
